---- MODULE Spec2Model ----
(***************************************************************************)
(* Model of the research run coordinator (graph/builder.py), the collector *)
(* nodes and finalize stages it wires together (agents/*.py), and the      *)
(* chunking engine of the vector pipeline (agents/vector_pipeline.py).     *)
(*                                                                         *)
(* Spec      : one run of the compiled graph, from the orchestrator node   *)
(*             to END, with every collector and stage outcome the code     *)
(*             can produce.                                                *)
(* FairSpec  : Spec with weak fairness of every step (every external call  *)
(*             eventually returns or fails).                               *)
(* SpecChunk : _chunk_text applied to texts of bounded length.             *)
(***************************************************************************)
EXTENDS Integers, Sequences, FiniteSets, TLC

(***************************************************************************)
(* Bounds of the model (not program constants).                            *)
(***************************************************************************)
\* longest selected_agents list that is enumerated
MaxSel == 2
\* most collectors whose external service misbehaves in one run
MaxBranchFaults == 2
\* longest text (in characters) handed to _chunk_text in SpecChunk
MaxTextLen == 360

\* rows of the largest store that SpecRetrieve searches
MaxRows == 14

\* length of the longest text that SpecCodec encodes and decodes
MaxCodecLen == 3

\* the largest of the small windows of SpecLoop
MaxWindow == 3

\* SpecLoop chunks streams of 0..MaxLoopTokens tokens with the small
\* windows, and of 0, 100, ..., 100 * MaxLoopTokens with the shipped one
MaxLoopTokens == 10

\* length of the longest selected_agents list of SpecWorkflow
MaxWorkflowSel == 3

(***************************************************************************)
(* graph/builder.py: the branch table and the node names.                  *)
(***************************************************************************)
\* PARALLEL_BRANCHES in dict (insertion) order: <<branch name, agent node>>
PARALLEL_BRANCHES ==
    << <<"parallel_web", "web_researcher">>,
       <<"parallel_academic", "academic_researcher">>,
       <<"parallel_news", "news_analyzer">>,
       <<"parallel_social", "social_analyzer">>,
       <<"parallel_financial", "financial_analyzer">>,
       <<"parallel_perplexity", "perplexity_researcher">>,
       <<"parallel_youtube", "youtube_researcher">> >>

BranchNames == {PARALLEL_BRANCHES[i][1] : i \in DOMAIN PARALLEL_BRANCHES}

AgentNodes == {PARALLEL_BRANCHES[i][2] : i \in DOMAIN PARALLEL_BRANCHES}

\* the node a branch name is mapped to by add_conditional_edges
BranchNode(name) ==
    LET i == CHOOSE j \in DOMAIN PARALLEL_BRANCHES : PARALLEL_BRANCHES[j][1] = name
    IN  PARALLEL_BRANCHES[i][2]

\* the finalize chain, in edge order: cleanup -> ... -> synthesizer -> END
FinalizeChain ==
    <<"cleanup", "data_archiver", "vector_store", "rag_retriever", "synthesizer">>

FinalizeNodes == {FinalizeChain[i] : i \in DOMAIN FinalizeChain}

Nodes == {"orchestrator"} \cup AgentNodes \cup FinalizeNodes

Range(s) == {s[i] : i \in DOMAIN s}

\* state.get("selected_agents") or []
SelectedOrEmpty(sel) == IF sel.kind = "list" THEN sel.list ELSE <<>>

\* the agent identifiers a request may name: the seven known ones and one
\* that PARALLEL_BRANCHES does not know
RequestIds == AgentNodes \cup {"unknown_agent"}

\* orchestrator_fan_out without its last line: the intersection is returned
\* also when it is empty
FanOutWithoutFallback(sel) ==
    LET selected == SelectedOrEmpty(sel)
        InSelected(p) == p[2] \in Range(selected)
        branches == SelectSeq(PARALLEL_BRANCHES, InSelected)
    IN  [i \in DOMAIN branches |-> branches[i][1]]

\* orchestrator_fan_out(state): the branch names to run, as a list
orchestrator_fan_out(sel) ==
    LET selected == SelectedOrEmpty(sel)
        InSelected(p) == p[2] \in Range(selected)
        branches == SelectSeq(PARALLEL_BRANCHES, InSelected)
        names    == [i \in DOMAIN branches |-> branches[i][1]]
        allNames == [i \in DOMAIN PARALLEL_BRANCHES |-> PARALLEL_BRANCHES[i][1]]
    IN  IF selected # <<>> /\ names # <<>> THEN names ELSE allNames

(***************************************************************************)
(* Result buckets.  elapsed and cost are wall-clock and price figures; the *)
(* model keeps the fields and abstracts their values to 0.  A text is a    *)
(* sequence of characters, a character is its Unicode code point.          *)
(***************************************************************************)
Bucket(sources, tokens, details) ==
    [sources |-> sources, elapsed |-> 0, tokens |-> tokens, cost |-> 0,
     details |-> details]

Source(name, items, metadata) ==
    [name |-> name, items |-> items, metadata |-> metadata]

\* the element of a one-element set; "The({F(v) : v \in {e}})" is F(e) with
\* e evaluated once, as the assignment "v = e" of the code does
The(S) == CHOOSE x \in S : TRUE

IsSpace(c) == c \in {9, 10, 11, 12, 13, 32}

\* str.strip()
Strip(text) ==
    LET kept == {i \in DOMAIN text : ~IsSpace(text[i])}
    IN  IF kept = {} THEN <<>>
        ELSE LET first == CHOOSE i \in kept : \A j \in kept : i <= j
                 last  == CHOOSE i \in kept : \A j \in kept : i >= j
             IN  SubSeq(text, first, last)

\* results[:limit]
Take(s, n) == IF Len(s) <= n THEN s ELSE SubSeq(s, 1, n)

\* num_items = 2 if mode == "simple" else 10
num_items(mode) == IF mode = "simple" THEN 2 ELSE 10

\* an item of a source: a structured record (a dict), given by the text of
\* its serialized fields, or a plain string
DictItem(fields) == [dict |-> fields]

StrItem(text) == [str |-> text]

\* the k-th record an external service returns to the collector whose tag
\* character is c: its fields serialize to two characters, tag and index
ServiceItems(c) == <<DictItem(<<c, 49>>), DictItem(<<c, 50>>)>>

\* a dict of metadata with the optional error entry of the collectors:
\* **({"error": ...} if "error" in payload else {})
WithError(metadata, payload) ==
    IF "error" \in DOMAIN payload
    THEN metadata @@ [error |-> payload.error]
    ELSE metadata

(***************************************************************************)
(* The external services.  An outcome names what the service or resource   *)
(* behind a collector does in this run:                                    *)
(*   "ok"        it answers with items                                     *)
(*   "exception" the call raises (connection error, timeout, bad payload)  *)
(*   "rejected"  it answers without data (HTTP status other than 200, no   *)
(*               credential configured)                                    *)
(***************************************************************************)
ServiceOutcomes == {"ok", "exception", "rejected"}

\* _fetch_tool_results / _fetch_results: tool.run inside try/except
\* ("rejected": the tool is None, only _fetch_tool_results tests for it)
fetch_tool_results(c, limit, outcome) ==
    CASE outcome = "ok"        -> [items |-> Take(ServiceItems(c), limit)]
      [] outcome = "rejected"  -> [items |-> <<>>, error |-> "tool_unavailable"]
      [] outcome = "exception" -> [items |-> <<>>, error |-> "tool raised"]

\* _build_source_payload(name, payload, limit)
build_source_payload(name, payload, limit) ==
    Source(name, payload.items,
           WithError([limit |-> limit, item_count |-> Len(payload.items)],
                     payload))

\* A node's return value: the state update it hands to the graph, or the
\* exception that leaves it.
Returned(update) == [kind |-> "returned", update |-> update]

Raised(what) == [kind |-> "raised", error |-> what]

\* research_web(state): three tools, each wrapped by _fetch_tool_results
research_web(topic, mode, outcome) ==
    LET n == num_items(mode)
        src(name, c) == build_source_payload(name, fetch_tool_results(c, n, outcome), n)
    IN  Returned("web_results" :>
            Bucket(<<src("serpapi", 115), src("tavily", 116), src("duckduckgo", 100)>>,
                   0, [mode |-> mode, topic |-> topic]))

\* fetch_arxiv_structured(query, max_results): (items, error)
fetch_arxiv_structured(limit, outcome) ==
    IF outcome = "ok" THEN [items |-> Take(ServiceItems(97), limit)]
    ELSE [items |-> <<>>, error |-> "arxiv raised"]

\* research_academic_papers returning its bucket under the key of analyze_news
AcademicUnderNewsKey(topic, mode, outcome) ==
    LET n == num_items(mode)
        arxiv == fetch_arxiv_structured(n, outcome)
        scholar == fetch_tool_results(103, n,
                       IF outcome = "ok" THEN "ok" ELSE "exception")
    IN  Returned("news_results" :>
            Bucket(<<build_source_payload("arxiv", arxiv, n),
                     build_source_payload("scholar", scholar, n)>>,
                   0, [mode |-> mode, topic |-> topic]))

\* research_academic_papers(state)
research_academic_papers(topic, mode, outcome) ==
    LET n == num_items(mode)
        arxiv == fetch_arxiv_structured(n, outcome)
        scholar == fetch_tool_results(103, n,
                       IF outcome = "ok" THEN "ok" ELSE "exception")
    IN  Returned("academic_results" :>
            Bucket(<<build_source_payload("arxiv", arxiv, n),
                     build_source_payload("scholar", scholar, n)>>,
                   0, [mode |-> mode, topic |-> topic]))

\* analyze_news returning its bucket under the key of research_web
AnalyzeNewsUnderWebKey(topic, mode, outcome) ==
    LET n == num_items(mode)
        payload == fetch_tool_results(110, n,
                       IF outcome = "ok" THEN "ok" ELSE "exception")
    IN  Returned("web_results" :>
            Bucket(<<Source("duckduckgo_news", payload.items,
                       WithError([limit |-> n, item_count |-> Len(payload.items),
                                  provider |-> "duckduckgo_news"], payload))>>,
                   0, [mode |-> mode, topic |-> topic]))

\* analyze_news(state): one provider behind _fetch_results
analyze_news(topic, mode, outcome) ==
    LET n == num_items(mode)
        payload == fetch_tool_results(110, n,
                       IF outcome = "ok" THEN "ok" ELSE "exception")
    IN  Returned("news_results" :>
            Bucket(<<Source("duckduckgo_news", payload.items,
                       WithError([limit |-> n, item_count |-> Len(payload.items),
                                  provider |-> "duckduckgo_news"], payload))>>,
                   0, [mode |-> mode, topic |-> topic]))

\* twitter_search(query, max_results): no try/except around requests.get
twitter_search(limit, outcome) ==
    CASE outcome = "ok"        -> Returned(Take(ServiceItems(120), limit))
      [] outcome = "rejected"  -> Returned(<<>>)
      [] outcome = "exception" -> Raised("requests.get raised")

\* analyze_social(state)
analyze_social(topic, mode, outcome) ==
    LET n == num_items(mode)
        tweets == twitter_search(n, outcome)
    IN  IF tweets.kind = "raised" THEN tweets
        ELSE Returned("social_sentiment" :>
                Bucket(<<Source("twitter", tweets.update,
                           [limit |-> n, item_count |-> Len(tweets.update),
                            query |-> topic])>>,
                       0, [mode |-> mode, topic |-> topic]))

\* get_financial_news(topic): get_finnhub_news / get_alphavantage_news call
\* requests.get without try/except
get_financial_news(outcome) ==
    CASE outcome = "ok"        -> Returned(ServiceItems(102))
      [] outcome = "rejected"  -> Returned(<<>>)
      [] outcome = "exception" -> Raised("requests.get raised")

\* analyze_financial(state); outcome "no_intent": is_financial_intent says no
analyze_financial(topic, mode, outcome) ==
    LET n == num_items(mode)
        intent == outcome # "no_intent"
        base == [limit |-> n, topic |-> topic, intent_detected |-> intent]
        raw == IF intent THEN get_financial_news(outcome) ELSE Returned(<<>>)
        items == Take(raw.update, n)
        metadata ==
            IF intent THEN base @@ [item_count |-> Len(items)]
            ELSE base @@ [item_count |-> 0, note |-> "no_financial_intent_detected"]
    IN  IF raw.kind = "raised" THEN raw
        ELSE Returned("financial_data" :>
                Bucket(<<Source("financial_news", items, metadata)>>,
                       0, [mode |-> mode, topic |-> topic,
                           intent_detected |-> intent]))

\* research_perplexity(state); outcome "resource_missing": no prompt
\* template on disk, _load_prompt_template raises FileNotFoundError
research_perplexity(topic, mode, outcome) ==
    LET failed(msg) == Returned("perplexity_results" :>
                           Bucket(<<>>, 0, [error |-> msg]))
    IN  CASE Strip(topic) = <<>>          -> failed("Topic is required")
          [] outcome = "rejected"         -> failed("PERPLEXITY_API_KEY not configured")
          [] outcome = "resource_missing" -> Raised("FileNotFoundError")
          [] outcome = "exception"        -> failed("Connection error")
          [] OTHER ->
               Returned("perplexity_results" :>
                   Bucket(<<Source("perplexity_overview", <<DictItem(<<112, 49>>)>>,
                                   [domain |-> "general"]),
                            Source("perplexity_citations", <<DictItem(<<112, 50>>)>>,
                                   [domain |-> "general", citation_count |-> 1])>>,
                          1, [domain |-> "general", mode |-> mode]))

\* build_structured_record(...) as analyze_youtube fills it: a record with
\* title/summary/content/source, and no name, items or metadata
VideoRecord(text) == [title |-> text, summary |-> text, content |-> text]

\* analyze_youtube(state); outcome "resource_missing": run_dir.mkdir or the
\* metadata.json write raises OSError
analyze_youtube(topic, mode, outcome) ==
    LET failed(msg) == Returned("youtube_results" :>
                           Bucket(<<>>, 0, [error |-> msg]))
        max_results == IF mode = "simple" THEN 3 ELSE 5
        found == Take(ServiceItems(121), max_results)
    IN  CASE outcome = "rejected"         -> failed("YOUTUBE_API_KEY not configured")
          [] outcome = "exception"        -> failed("YouTube search failed")
          [] outcome = "resource_missing" -> Raised("OSError")
          [] OTHER ->
               Returned("youtube_results" :>
                   Bucket([i \in DOMAIN found |-> VideoRecord(found[i].dict)], 0,
                          [search_count |-> Len(found),
                           processed_count |-> Len(found), mode |-> "api_only"]))

\* what the service or resource behind each collector can do
CollectorOutcomes(node) ==
    CASE node = "web_researcher"        -> {"ok", "rejected", "exception"}
      [] node = "academic_researcher"   -> {"ok", "exception"}
      [] node = "news_analyzer"         -> {"ok", "exception"}
      [] node = "social_analyzer"       -> {"ok", "rejected", "exception"}
      [] node = "financial_analyzer"    -> {"ok", "no_intent", "rejected", "exception"}
      [] node = "perplexity_researcher" -> {"ok", "rejected", "exception", "resource_missing"}
      [] node = "youtube_researcher"    -> {"ok", "rejected", "exception", "resource_missing"}

\* the service or resource failed (as opposed to answering)
IsFault(outcome) == outcome \in {"rejected", "exception", "resource_missing"}

\* workflow.add_node(name, fn): the function behind each collector node
RunCollector(node, topic, mode, outcome) ==
    CASE node = "web_researcher"        -> research_web(topic, mode, outcome)
      [] node = "academic_researcher"   -> research_academic_papers(topic, mode, outcome)
      [] node = "news_analyzer"         -> analyze_news(topic, mode, outcome)
      [] node = "social_analyzer"       -> analyze_social(topic, mode, outcome)
      [] node = "financial_analyzer"    -> analyze_financial(topic, mode, outcome)
      [] node = "perplexity_researcher" -> research_perplexity(topic, mode, outcome)
      [] node = "youtube_researcher"    -> analyze_youtube(topic, mode, outcome)

(***************************************************************************)
(* agents/vector_pipeline.py: token encoding and chunking.                 *)
(***************************************************************************)
_CHUNK_SIZE_TOKENS == 350

_CHUNK_OVERLAP_TOKENS == 70

_RETRIEVAL_TOP_K == 12

\* str.encode("utf-8") of one code point
Utf8(cp) ==
    IF cp < 128 THEN <<cp>>
    ELSE IF cp < 2048 THEN <<192 + (cp \div 64), 128 + (cp % 64)>>
    ELSE IF cp < 65536 THEN
        <<224 + (cp \div 4096), 128 + ((cp \div 64) % 64), 128 + (cp % 64)>>
    ELSE <<240 + (cp \div 262144), 128 + ((cp \div 4096) % 64),
           128 + ((cp \div 64) % 64), 128 + (cp % 64)>>

\* concatenation of f(s[lo]), ..., f(s[hi])
RECURSIVE ConcatBytes(_, _, _)
ConcatBytes(s, lo, hi) ==
    IF lo > hi THEN <<>>
    ELSE IF lo = hi THEN Utf8(s[lo])
    ELSE LET mid == (lo + hi) \div 2
         IN  ConcatBytes(s, lo, mid) \o ConcatBytes(s, mid + 1, hi)

\* _encode_tokens(text) with the "char" encoder: list(text.encode("utf-8"))
_encode_tokens(text) == ConcatBytes(text, 1, Len(text))

IsContinuation(b) == b >= 128 /\ b < 192

\* number of continuation bytes a lead byte announces
Following(b) ==
    IF b < 128 THEN 0 ELSE IF b < 224 THEN 1 ELSE IF b < 240 THEN 2 ELSE 3

\* the code point of the complete character that starts at tokens[i]
CodePoint(tokens, i) ==
    CASE Following(tokens[i]) = 0 -> tokens[i]
      [] Following(tokens[i]) = 1 ->
           (tokens[i] - 192) * 64 + (tokens[i + 1] % 64)
      [] Following(tokens[i]) = 2 ->
           (tokens[i] - 224) * 4096 + (tokens[i + 1] % 64) * 64
             + (tokens[i + 2] % 64)
      [] OTHER ->
           (tokens[i] - 240) * 262144 + (tokens[i + 1] % 64) * 4096
             + (tokens[i + 2] % 64) * 64 + (tokens[i + 3] % 64)

\* the characters that start at the positions starts of tokens
CodePoints(tokens, starts) ==
    [j \in DOMAIN starts |-> CodePoint(tokens, starts[j])]

\* _decode_tokens(tokens) with the "char" encoder:
\* bytes(tokens).decode("utf-8", errors="ignore"): a byte sequence that is
\* not a complete character (a continuation byte without its lead, a lead
\* without all its continuation bytes) is dropped
_decode_tokens(tokens) ==
    LET Complete(i) ==
            /\ ~IsContinuation(tokens[i])
            /\ i + Following(tokens[i]) <= Len(tokens)
            /\ \A k \in 1..Following(tokens[i]) : IsContinuation(tokens[i + k])
    IN  CodePoints(tokens, SelectSeq([i \in 1..Len(tokens) |-> i], Complete))

\* tokens[start:end] with 0-based Python slice bounds
Slice(tokens, start, end) ==
    SubSeq(tokens, start + 1, IF end < Len(tokens) THEN end ELSE Len(tokens))

Max(a, b) == IF a >= b THEN a ELSE b

\* the while loop of _chunk_text, from offset start
RECURSIVE ChunkLoop(_, _)
ChunkLoop(tokens, start) ==
    IF ~(start < Len(tokens)) THEN <<>>
    ELSE LET end == start + _CHUNK_SIZE_TOKENS
             chunk == _decode_tokens(Slice(tokens, start, end))
         IN  IF end >= Len(tokens) THEN <<chunk>>
             ELSE <<chunk>> \o ChunkLoop(tokens, Max(0, end - _CHUNK_OVERLAP_TOKENS))

\* the while loop of _chunk_text advancing by the whole window
RECURSIVE ChunkLoopNoOverlap(_, _)
ChunkLoopNoOverlap(tokens, start) ==
    IF ~(start < Len(tokens)) THEN <<>>
    ELSE LET end == start + _CHUNK_SIZE_TOKENS
             chunk == _decode_tokens(Slice(tokens, start, end))
         IN  IF end >= Len(tokens) THEN <<chunk>>
             ELSE <<chunk>> \o ChunkLoopNoOverlap(tokens, end)

\* _chunk_text with windows that do not overlap
ChunkTextNoOverlap(text) ==
    The({IF Len(tokens) <= _CHUNK_SIZE_TOKENS THEN <<text>>
         ELSE ChunkLoopNoOverlap(tokens, 0) : tokens \in {_encode_tokens(text)}})

\* _chunk_text without its early return: every text goes through the loop
ChunkTextAlwaysLoop(text) == ChunkLoop(_encode_tokens(text), 0)

\* _chunk_text(text), tokens being _encode_tokens(text)
ChunkTokens(text, tokens) ==
    IF Len(tokens) <= _CHUNK_SIZE_TOKENS THEN <<text>>
    ELSE ChunkLoop(tokens, 0)

\* _chunk_text(text)
_chunk_text(text) ==
    The({ChunkTokens(text, tokens) : tokens \in {_encode_tokens(text)}})

(***************************************************************************)
(* agents/vector_pipeline.py: gathering chunks from the run state.         *)
(* The run state is a function from the populated keys to their values.    *)
(***************************************************************************)
\* agent_keys of _collect_text_chunks, in list order
agent_keys ==
    <<"web_results", "academic_results", "news_results", "social_sentiment",
      "financial_data", "perplexity_results", "youtube_results">>

\* ss[i] \o ... \o ss[Len(ss)]
RECURSIVE FlattenFrom(_, _)
FlattenFrom(ss, i) ==
    IF i > Len(ss) THEN <<>> ELSE ss[i] \o FlattenFrom(ss, i + 1)

\* the concatenation of the lists of ss: what repeated extend/append builds
Flatten(ss) == The({FlattenFrom(v, 1) : v \in {ss \o <<>>}})

\* json.dumps(item, ensure_ascii=False) of a structured record whose
\* serialized fields are item: the fields between braces
json_dumps(item) == <<123>> \o item.dict \o <<125>>

\* text = item if isinstance(item, str) else json.dumps(item)
ItemText(item) == IF "str" \in DOMAIN item THEN item.str ELSE json_dumps(item)

\* json.dumps(source.get("metadata", {})): the opaque blob stored per row
SerializeMetadata(metadata) == <<"json", metadata>>

\* json.loads(blob)
DeserializeMetadata(blob) == blob[2]

\* the chunk dicts appended for the pieces of one text
PieceDicts(agent, source, metadata, original_index, pieces) ==
    [k \in DOMAIN pieces |->
        [agent |-> agent, source |-> source, metadata |-> metadata,
         original_index |-> original_index, chunk_index |-> k - 1,
         text |-> pieces[k],
         token_count |-> Len(_encode_tokens(pieces[k]))]]

\* the chunk dicts of one text: enumerate(_chunk_text(text))
ChunkDicts(agent, source, metadata, original_index, text) ==
    The({PieceDicts(agent, source, metadata, original_index, pieces) :
            pieces \in {_chunk_text(text)}})

\* the body of "for source in result.get('sources', [])"
SourceChunks(key, source) ==
    LET source_name == IF "name" \in DOMAIN source THEN source.name ELSE "source"
        metadata == SerializeMetadata(
                        IF "metadata" \in DOMAIN source THEN source.metadata
                        ELSE <<>>)
        items == IF "items" \in DOMAIN source THEN source.items ELSE <<>>
        OfText(idx, text) ==
            IF text = <<>> THEN <<>>
            ELSE ChunkDicts(key, source_name, metadata, idx - 1, text)
        OfItem(idx) ==
            The({OfText(idx, text) : text \in {Strip(ItemText(items[idx]))}})
    IN  Flatten([idx \in DOMAIN items |-> OfItem(idx)])

\* _collect_text_chunks(state)
_collect_text_chunks(state) ==
    LET OfKey(key) ==
            IF key \in DOMAIN state
            THEN Flatten([j \in DOMAIN state[key].sources |->
                              SourceChunks(key, state[key].sources[j])])
            ELSE <<>>
        fromAgents == Flatten([i \in DOMAIN agent_keys |-> OfKey(agent_keys[i])])
        report == IF "final_report" \in DOMAIN state
                  THEN Strip(state["final_report"]) ELSE <<>>
        fromReport ==
            IF report = <<>> THEN <<>>
            ELSE ChunkDicts("final_report", "final_report",
                            SerializeMetadata(<<>>), 0, report)
    IN  fromAgents \o fromReport

\* the characters of the collector keys and source names of the program
NameChars ==
    [web_results |-> <<119, 101, 98, 95, 114, 101, 115, 117, 108, 116, 115>>,
     academic_results |-> <<97, 99, 97, 100, 101, 109, 105, 99, 95, 114,
         101, 115, 117, 108, 116, 115>>,
     news_results |-> <<110, 101, 119, 115, 95, 114, 101, 115, 117, 108,
         116, 115>>,
     social_sentiment |-> <<115, 111, 99, 105, 97, 108, 95, 115, 101, 110,
         116, 105, 109, 101, 110, 116>>,
     financial_data |-> <<102, 105, 110, 97, 110, 99, 105, 97, 108, 95,
         100, 97, 116, 97>>,
     perplexity_results |-> <<112, 101, 114, 112, 108, 101, 120, 105, 116,
         121, 95, 114, 101, 115, 117, 108, 116, 115>>,
     youtube_results |-> <<121, 111, 117, 116, 117, 98, 101, 95, 114, 101,
         115, 117, 108, 116, 115>>,
     final_report |-> <<102, 105, 110, 97, 108, 95, 114, 101, 112, 111,
         114, 116>>,
     serpapi |-> <<115, 101, 114, 112, 97, 112, 105>>,
     tavily |-> <<116, 97, 118, 105, 108, 121>>,
     duckduckgo |-> <<100, 117, 99, 107, 100, 117, 99, 107, 103, 111>>,
     arxiv |-> <<97, 114, 120, 105, 118>>,
     scholar |-> <<115, 99, 104, 111, 108, 97, 114>>,
     duckduckgo_news |-> <<100, 117, 99, 107, 100, 117, 99, 107, 103, 111,
         95, 110, 101, 119, 115>>,
     twitter |-> <<116, 119, 105, 116, 116, 101, 114>>,
     financial_news |-> <<102, 105, 110, 97, 110, 99, 105, 97, 108, 95,
         110, 101, 119, 115>>,
     perplexity_overview |-> <<112, 101, 114, 112, 108, 101, 120, 105, 116,
         121, 95, 111, 118, 101, 114, 118, 105, 101, 119>>,
     perplexity_citations |-> <<112, 101, 114, 112, 108, 101, 120, 105,
         116, 121, 95, 99, 105, 116, 97, 116, 105, 111, 110, 115>>,
     source |-> <<115, 111, 117, 114, 99, 101>>]

\* the characters of a key or source name as the f-string inserts them
Chars(name) == NameChars[name]

\* str(n) of a non-negative int
RECURSIVE Digits(_)
Digits(n) == IF n < 10 THEN <<48 + n>> ELSE Digits(n \div 10) \o <<48 + (n % 10)>>

\* the "::" between two fields
Separator == <<58, 58>>

\* _record_id without the text of the chunk
RecordIdWithoutText(chunk) ==
    Chars(chunk.agent) \o Separator \o Chars(chunk.source) \o Separator
      \o Digits(chunk.original_index) \o Separator \o Digits(chunk.chunk_index)

\* _record_id(chunk): the digest of the five fields joined by "::". SHA-256
\* is taken as collision-free and UTF-8 encodes different strings differently,
\* so the joined string stands for its digest
_record_id(chunk) ==
    Chars(chunk.agent) \o Separator \o Chars(chunk.source) \o Separator
      \o Digits(chunk.original_index) \o Separator \o Digits(chunk.chunk_index)
      \o Separator \o chunk.text

\* SentenceTransformer.encode(text): the embedding of a text, abstracted to
\* a one-dimensional vector that is a function of the text alone
RECURSIVE SumTo(_, _)
SumTo(text, n) == IF n = 0 THEN 0 ELSE (text[n] + SumTo(text, n - 1)) % 8

Embed(text) == SumTo(text, IF Len(text) < 8 THEN Len(text) ELSE 8)

\* pd.DataFrame(records).drop_duplicates(subset="id"): first row of each id
RECURSIVE DropDuplicates(_, _)
DropDuplicates(records, seen) ==
    IF records = <<>> THEN <<>>
    ELSE IF Head(records).id \in seen THEN DropDuplicates(Tail(records), seen)
    ELSE <<Head(records)>> \o DropDuplicates(Tail(records), seen \cup {Head(records).id})

\* the currency clean-up of store_in_vector_db: a column in which some value
\* starts with "$" is stripped of "$" and "," and converted with
\* pd.to_numeric(errors="coerce"); a value that is not a number becomes NaN,
\* written <<-1>>
IsDigit(c) == c >= 48 /\ c <= 57

ToNumeric(text) ==
    LET NotCurrency(c) == c \notin {36, 44}
        bare == SelectSeq(text, NotCurrency)
    IN  IF bare # <<>> /\ \A i \in DOMAIN bare : IsDigit(bare[i])
        THEN bare ELSE <<-1>>

CleanCurrency(df) ==
    IF \E i \in DOMAIN df : df[i].text # <<>> /\ df[i].text[1] = 36
    THEN [i \in DOMAIN df |-> [df[i] EXCEPT !.text = ToNumeric(@)]]
    ELSE df

\* sorted({chunk["agent"] for chunk in chunks}), as the set it lists
AgentsOf(chunks) == {chunks[i].agent : i \in DOMAIN chunks}

RECURSIVE SumTokens(_)
SumTokens(chunks) ==
    IF chunks = <<>> THEN 0 ELSE Head(chunks).token_count + SumTokens(Tail(chunks))

\* the records assembled from the chunks and their embeddings
IndexRecords(chunks) ==
    [i \in DOMAIN chunks |->
        [id |-> _record_id(chunks[i]), text |-> chunks[i].text,
         source |-> chunks[i].source, agent |-> chunks[i].agent,
         metadata |-> chunks[i].metadata,
         chunk_index |-> chunks[i].chunk_index,
         embedding |-> Embed(chunks[i].text)]]

\* the end of store_in_vector_db: the frame df replaces the rows of the
\* table (table.delete("true"); table.add(df)) and the result is built
WriteBatch(state, rows, chunks, df) ==
    [result |-> Returned("vector_store_result" :>
         Bucket(<<Source("vector_store", <<Len(df)>>,
                         [table |-> "research_chunks",
                          agents |-> AgentsOf(chunks)])>>,
                SumTokens(chunks),
                [mode |-> IF "mode" \in DOMAIN state THEN state["mode"]
                          ELSE "None",
                 chunk_count |-> Len(df)])),
     rows |-> IF df # <<>> THEN df ELSE rows]

\* store_in_vector_db from "chunks = _collect_text_chunks(state)" on
StoreChunks(state, rows, chunks, outcome) ==
    IF chunks = <<>>
    THEN [result |-> Returned("vector_store_result" :>
              Bucket(<<>>, 0, [note |-> "No data available for indexing"])),
          rows |-> rows]
    ELSE IF outcome = "exception"
    THEN [result |-> Raised("embedder raised"), rows |-> rows]
    ELSE The({WriteBatch(state, rows, chunks, CleanCurrency(df)) :
                 df \in {DropDuplicates(IndexRecords(chunks) \o <<>>, {})}})

\* store_in_vector_db(state) against the table rows; lancedb: the package
\* is installed; outcome "open_failed": _db.open_table raises; outcome
\* "exception": loading or running the embedder raises.
\* Yields the node's return value and the rows of the table afterwards.
store_in_vector_db(state, rows, lancedb, outcome) ==
    IF ~lancedb
    THEN [result |-> Returned("vector_store_result" :>
              Bucket(<<>>, 0, [error |-> "lancedb package not installed"])),
          rows |-> rows]
    ELSE IF outcome = "open_failed"
    THEN [result |-> Raised("open_table raised"), rows |-> rows]
    ELSE The({StoreChunks(state, rows, chunks, outcome) :
                 chunks \in {_collect_text_chunks(state)}})

Abs(x) == IF x < 0 THEN 0 - x ELSE x

\* the rows at distance d from the query vector, in table order
AtDistance(rows, query_vec, d) ==
    LET Near(r) == Abs(r.embedding - query_vec) = d
    IN  SelectSeq(rows, Near)

\* table.search(query_vec).limit(k): the k rows nearest to the query
\* vector, nearest first, rows at equal distance in table order
Search(rows, query_vec, k) ==
    Take(Flatten([d \in 1..8 |-> AtDistance(rows, query_vec, d - 1)]), k)

\* the loop over results.iterrows(): one hit per row
Hits(results) ==
    [i \in DOMAIN results |->
        [text |-> results[i].text,
         \* info = json.loads(...); info['source'] = ...; info['agent'] = ...
         metadata |->
             [source |-> results[i].source, agent |-> results[i].agent]
               @@ DeserializeMetadata(results[i].metadata)]]

\* the result of a search that returned items
SearchResult(query, items) ==
    Returned("rag_result" :>
        Bucket(<<Source("semantic_search", items,
                        [table |-> "research_chunks",
                         result_count |-> Len(items),
                         requested_top_k |-> _RETRIEVAL_TOP_K])>>,
               Len(_encode_tokens(query)), [query |-> query]))

\* retrieve_from_vector_db from "query = state.get('topic', '')" on
Retrieve(query, rows, outcome) ==
    IF query = <<>>
    THEN Returned("rag_result" :>
             Bucket(<<>>, 0, [error |-> "Empty topic for retrieval"]))
    ELSE IF outcome = "exception" THEN Raised("embedder raised")
    ELSE The({SearchResult(query, Hits(results) \o <<>>) :
                 results \in {Search(rows, Embed(query), _RETRIEVAL_TOP_K)}})

\* the calls retrieve_from_vector_db makes to the store and to the embedder,
\* in order, up to its return or to the call that raises
RetrieveCalls(state, lancedb, outcome) ==
    IF ~lancedb THEN <<>>
    ELSE IF outcome = "open_failed" THEN <<"open_table">>
    ELSE IF "topic" \notin DOMAIN state \/ state["topic"] = <<>>
    THEN <<"open_table">>
    ELSE IF outcome = "exception" THEN <<"open_table", "encode">>
    ELSE <<"open_table", "encode", "search">>

\* retrieve_from_vector_db with the stored metadata laid over the row's
\* source and agent, and without the limit on the search
RetrieveBlobFirst(state, rows, lancedb, outcome) ==
    IF ~lancedb
    THEN Returned("rag_result" :>
             Bucket(<<>>, 0, [error |-> "lancedb package not installed"]))
    ELSE IF outcome = "open_failed" THEN Raised("open_table raised")
    ELSE IF "topic" \notin DOMAIN state \/ state["topic"] = <<>>
    THEN Returned("rag_result" :>
             Bucket(<<>>, 0, [error |-> "Empty topic for retrieval"]))
    ELSE IF outcome = "exception" THEN Raised("embedder raised")
    ELSE SearchResult(state["topic"],
             [i \in DOMAIN rows |->
                 [text |-> rows[i].text,
                  metadata |-> DeserializeMetadata(rows[i].metadata)
                                 @@ [source |-> rows[i].source,
                                     agent |-> rows[i].agent]]])

\* retrieve_from_vector_db(state) against the table rows
retrieve_from_vector_db(state, rows, lancedb, outcome) ==
    IF ~lancedb
    THEN Returned("rag_result" :>
             Bucket(<<>>, 0, [error |-> "lancedb package not installed"]))
    ELSE IF outcome = "open_failed" THEN Raised("open_table raised")
    ELSE Retrieve(IF "topic" \in DOMAIN state THEN state["topic"] ELSE <<>>,
                  rows, outcome)

(***************************************************************************)
(* agents/cleanup_agent.py, agents/data_archiver.py, agents/synthesizer.py *)
(***************************************************************************)
\* cleanup_archives(state) against the archive directory and the table.
\* outcome "fs_error": unlink and rmtree raise (caught, listed in
\* metadata["errors"]); outcome "exception": initialize_vector_store raises
\* after the store directory was removed.
cleanup_archives(files, rows, lancedb, outcome) ==
    LET names == {f.name : f \in files}
        removed == IF outcome = "fs_error" THEN {} ELSE names
        \* _DB_DIR exists once initialize_vector_store has created it
        vector_removed == lancedb /\ outcome # "fs_error"
        errors == IF outcome = "fs_error"
                  THEN names \cup (IF lancedb THEN {"Vector store"} ELSE {})
                  ELSE {}
        base == [removed_count |-> Cardinality(removed),
                 vector_store_cleared |-> vector_removed]
        metadata == IF errors # {} THEN base @@ [errors |-> errors] ELSE base
    IN  [result |->
            IF vector_removed /\ outcome = "exception"
            THEN Raised("initialize_vector_store raised")
            ELSE Returned("cleanup_result" :>
                     Bucket(<<Source("cleanup", removed, metadata)>>, 0,
                            [note |-> "Removed archives and reset vector store before new run"])),
         files |-> {f \in files : f.name \notin removed},
         rows |-> IF vector_removed THEN <<>> ELSE rows]

\* _slugify(topic) or "untitled", for the topics of the model
_slugify(topic) == IF Strip(topic) = <<>> THEN "untitled" ELSE "topic"

\* f"{timestamp}_{slug}.json" for the two slugs of the model
ArchiveName(slug) ==
    IF slug = "untitled" THEN "timestamp_untitled.json" ELSE "timestamp_topic.json"

\* archive_state(state): json.dump(state) into <timestamp>_<slug>.json;
\* outcome "exception": mkdir, open or the write raises (no try/except)
archive_state(state, files, outcome) ==
    LET topic == IF "topic" \in DOMAIN state /\ state["topic"] # <<>>
                 THEN state["topic"] ELSE <<114>>
        filename == ArchiveName(_slugify(topic))
    IN  IF outcome = "exception"
        THEN [result |-> Raised("OSError"), files |-> files]
        ELSE [result |-> Returned("archive_path" :> filename),
              files |-> {f \in files : f.name # filename}
                          \cup {[name |-> filename, content |-> state]}]

\* generate_final_report(state); outcome "resource_missing": the prompt
\* template is not on disk, load_synthesizer_prompt raises outside the try;
\* outcome "exception": invoke_llm raises, caught
generate_final_report(state, outcome) ==
    LET payload(details, note) ==
            Bucket(<<Source("synthesizer", <<>>, [note |-> note])>>, 0, details)
    IN  CASE outcome = "resource_missing" -> Raised("FileNotFoundError")
          [] outcome = "exception" ->
               Returned("synthesizer_result" :>
                   payload([model |-> "gpt-4o", error |-> "llm raised"],
                           "Final report generation failed"))
          [] OTHER ->
               Returned(("final_report" :> <<82, 49>>) @@
                        ("synthesizer_result" :>
                            payload([model |-> "gpt-4o"], "See final report text")))

\* create_research_plan(state)
create_research_plan(state) == Returned("research_plan" :> <<"plan", state["topic"]>>)

\* what the resources behind each finalize stage can do
StageOutcomes(node) ==
    CASE node = "cleanup"       -> {"ok", "fs_error", "exception"}
      [] node = "data_archiver" -> {"ok", "exception"}
      [] node = "vector_store"  -> {"ok", "open_failed", "exception"}
      [] node = "rag_retriever" -> {"ok", "open_failed", "exception"}
      [] node = "synthesizer"   -> {"ok", "exception", "resource_missing"}

(***************************************************************************)
(* One run of the compiled graph (build_graph).                            *)
(***************************************************************************)
VARIABLES
    request,     \* the caller's input: topic, mode, selected_agents
    lancedb,     \* the lancedb package is installed in this process
    runState,    \* the graph state: populated key -> value
    status,      \* node -> "idle" | "running" | "returned" | "raised"
    started,     \* node -> number of times the node was started
    branches,    \* the list orchestrator_fan_out returned
    writes,      \* collector node -> the update it returned (this superstep)
    outcome,     \* node -> what its external service or resource did
    phase,       \* "Pending" | "FannedOut" | "Finalizing" | "Done" | "Failed"
    failedAt,    \* the node whose exception ended the run, or "none"
    writeCount,  \* key -> number of writes the nodes made to it
    indexStore,  \* rows of the research_chunks table
    archives,    \* files of the archive directory
    ctext,       \* SpecChunk: the text handed to _chunk_text
    cchunks,     \* SpecChunk: the list it returned
    cpc,         \* SpecChunk: "ready" | "idle" | "chunked"
    fin,         \* function-level specifications: the arguments of the call
    fout,        \* ... its result
    fpc          \* ... "idle" | "call" | "done"

vars == <<request, lancedb, runState, status, started, branches, writes,
          outcome, phase, failedAt, writeCount, indexStore, archives,
          ctext, cchunks, cpc, fin, fout, fpc>>

runVars == <<request, lancedb, runState, status, started, branches, writes,
             outcome, phase, failedAt, writeCount, indexStore, archives>>

chunkVars == <<ctext, cchunks, cpc>>

callVars == <<fin, fout, fpc>>

\* no function-level call takes part
CallIdle == fin = <<>> /\ fout = <<>> /\ fpc = "idle"

\* _chunk_text does not take part
ChunkIdle == ctext = <<>> /\ cchunks = <<>> /\ cpc = "idle"

\* the keys the nodes of the graph write
NodeKeys ==
    {"research_plan", "web_results", "academic_results", "news_results",
     "social_sentiment", "financial_data", "perplexity_results",
     "youtube_results", "cleanup_result", "archive_path",
     "vector_store_result", "rag_result", "synthesizer_result", "final_report"}

RECURSIVE SeqsUpTo(_, _)
SeqsUpTo(S, n) ==
    IF n = 0 THEN {<<>>}
    ELSE LET shorter == SeqsUpTo(S, n - 1)
         IN  shorter \cup {Append(q, x) : q \in shorter, x \in S}

\* the values of selected_agents: absent, None, or a list of identifiers
Requests ==
    {[kind |-> k, list |-> <<>>] : k \in {"absent", "none"}}
        \cup {[kind |-> "list", list |-> l] : l \in SeqsUpTo(RequestIds, MaxSel)}

\* requests that are run in every environment
SmallRequests ==
    {[kind |-> "list", list |-> l] :
        l \in { <<"web_researcher", "social_analyzer">>,
                <<"perplexity_researcher">>, <<"youtube_researcher">>,
                <<"financial_analyzer">>, <<"news_analyzer">> }}

Topics == {<<>>, <<113>>}

Modes == {"simple", "extended"}

\* a row and an archive file left behind by an earlier run
StaleRow ==
    LET chunk == [agent |-> "web_results", source |-> "duckduckgo",
                  original_index |-> 0, chunk_index |-> 0, text |-> <<123, 111, 125>>]
    IN  [id |-> _record_id(chunk), text |-> chunk.text, source |-> chunk.source,
         agent |-> chunk.agent, metadata |-> SerializeMetadata(<<>>),
         chunk_index |-> 0, embedding |-> Embed(chunk.text)]

StaleFile == [name |-> "earlier_topic.json", content |-> <<>>]

InitialState(req) ==
    ("topic" :> req.topic) @@ ("mode" :> req.mode)
      @@ (IF req.selected_agents.kind = "list"
          THEN "selected_agents" :> req.selected_agents.list ELSE <<>>)

Init ==
    /\ \/ /\ request \in [topic : {<<113>>}, mode : {"simple"},
                          selected_agents : Requests]
          /\ lancedb = TRUE
          /\ indexStore = <<StaleRow>>
          /\ archives = {StaleFile}
       \/ /\ request \in [topic : Topics, mode : Modes,
                          selected_agents : SmallRequests]
          /\ lancedb \in BOOLEAN
          /\ indexStore \in IF lancedb THEN {<<>>, <<StaleRow>>} ELSE {<<>>}
          /\ archives \in {{}, {StaleFile}}
    /\ runState = InitialState(request)
    /\ status = [n \in Nodes |-> "idle"]
    /\ started = [n \in Nodes |-> 0]
    /\ branches = <<>>
    /\ writes = <<>>
    /\ outcome = [n \in Nodes |-> "none"]
    /\ phase = "Pending"
    /\ failedAt = "none"
    /\ writeCount = [k \in NodeKeys |-> 0]
    /\ ChunkIdle
    /\ CallIdle

\* the graph applies a node's update: each key of the update is written
ApplyUpdate(state, update) == update @@ state

CountWrites(count, update) ==
    [k \in NodeKeys |-> IF k \in DOMAIN update THEN count[k] + 1 ELSE count[k]]

\* the collector nodes started by the conditional edge
SelectedNodes == {BranchNode(branches[i]) : i \in DOMAIN branches}

\* superstep 1: create_research_plan, then the conditional edge
Orchestrate ==
    /\ phase = "Pending"
    /\ LET r == create_research_plan(runState)
           fan == orchestrator_fan_out(request.selected_agents)
           nodes == {BranchNode(fan[i]) : i \in DOMAIN fan}
       IN  /\ runState' = ApplyUpdate(runState, r.update)
           /\ writeCount' = CountWrites(writeCount, r.update)
           /\ branches' = fan
           /\ status' = [n \in Nodes |->
                            IF n = "orchestrator" THEN "returned"
                            ELSE IF n \in nodes THEN "running" ELSE status[n]]
           /\ started' = [n \in Nodes |->
                            IF n = "orchestrator" \/ n \in nodes
                            THEN started[n] + 1 ELSE started[n]]
    /\ phase' = "FannedOut"
    /\ UNCHANGED <<request, lancedb, writes, outcome, failedAt, indexStore,
                   archives, chunkVars, callVars>>

\* the number of collectors whose service has failed so far
BranchFaults == Cardinality({n \in AgentNodes : IsFault(outcome[n])})

\* a running collector finishes: it returns its update or raises
Collector(node) ==
    /\ phase = "FannedOut"
    /\ status[node] = "running"
    /\ \E o \in CollectorOutcomes(node) :
          /\ IsFault(o) => BranchFaults < MaxBranchFaults
          /\ outcome' = [outcome EXCEPT ![node] = o]
          /\ \E r \in {RunCollector(node, runState["topic"], runState["mode"], o)} :
                 IF r.kind = "returned"
                 THEN /\ status' = [status EXCEPT ![node] = "returned"]
                      /\ writes' = writes @@ (node :> r.update)
                      /\ UNCHANGED <<phase, failedAt>>
                 ELSE \* the exception leaves invoke(): the run is over
                      /\ status' = [status EXCEPT ![node] = "raised"]
                      /\ phase' = "Failed"
                      /\ failedAt' = node
                      /\ UNCHANGED writes
    /\ UNCHANGED <<request, lancedb, runState, started, branches, writeCount,
                   indexStore, archives, chunkVars, callVars>>

\* a partial join: the next superstep starts once any branch has returned
JoinReadyAny == \E n \in SelectedNodes : status[n] = "returned"

\* the superstep of the collectors is over: every started branch returned
JoinReady ==
    /\ SelectedNodes # {}
    /\ \A n \in SelectedNodes : status[n] = "returned"

\* the updates of the finished superstep, applied in task order
RECURSIVE ApplyWrites(_, _, _)
ApplyWrites(state, pending, i) ==
    IF i > Len(PARALLEL_BRANCHES) THEN state
    ELSE LET node == PARALLEL_BRANCHES[i][2]
         IN  The({ApplyWrites(applied, pending, i + 1) :
                     applied \in {IF node \in DOMAIN pending
                                  THEN ApplyUpdate(state, pending[node])
                                  ELSE state}})

RECURSIVE CountAllWrites(_, _, _)
CountAllWrites(count, pending, i) ==
    IF i > Len(PARALLEL_BRANCHES) THEN count
    ELSE LET node == PARALLEL_BRANCHES[i][2]
         IN  The({CountAllWrites(counted, pending, i + 1) :
                     counted \in {IF node \in DOMAIN pending
                                  THEN CountWrites(count, pending[node])
                                  ELSE count}})

\* the barrier: the edges <collector> -> cleanup fire together
Join ==
    /\ phase = "FannedOut"
    /\ JoinReady
    /\ runState' = ApplyWrites(runState, writes, 1)
    /\ writeCount' = CountAllWrites(writeCount, writes, 1)
    /\ writes' = <<>>
    /\ status' = [status EXCEPT !["cleanup"] = "running"]
    /\ started' = [started EXCEPT !["cleanup"] = @ + 1]
    /\ phase' = "Finalizing"
    /\ UNCHANGED <<request, lancedb, branches, outcome, failedAt, indexStore,
                   archives, chunkVars, callVars>>

\* the node that the edge out of a finalize node leads to, or "END"
NextNode(node) ==
    LET i == CHOOSE j \in DOMAIN FinalizeChain : FinalizeChain[j] = node
    IN  IF i < Len(FinalizeChain) THEN FinalizeChain[i + 1] ELSE "END"

\* a finalize node ends with result r: its update is applied and the next
\* node of the chain starts, or its exception ends the run
StageEnds(node, o, r) ==
    /\ outcome' = [outcome EXCEPT ![node] = o]
    /\ IF r.kind = "returned"
       THEN /\ runState' = ApplyUpdate(runState, r.update)
            /\ writeCount' = CountWrites(writeCount, r.update)
            /\ status' = [n \in Nodes |->
                             IF n = node THEN "returned"
                             ELSE IF n = NextNode(node) THEN "running"
                             ELSE status[n]]
            /\ started' = [n \in Nodes |->
                             IF n = NextNode(node) THEN started[n] + 1
                             ELSE started[n]]
            /\ phase' = IF NextNode(node) = "END" THEN "Done" ELSE phase
            /\ UNCHANGED failedAt
       ELSE /\ status' = [status EXCEPT ![node] = "raised"]
            /\ phase' = "Failed"
            /\ failedAt' = node
            /\ UNCHANGED <<runState, writeCount, started>>
    /\ UNCHANGED <<request, lancedb, branches, writes, chunkVars, callVars>>

StageRunning(node) == phase = "Finalizing" /\ status[node] = "running"

Cleanup ==
    /\ StageRunning("cleanup")
    /\ \E o \in StageOutcomes("cleanup") :
          \E c \in {cleanup_archives(archives, indexStore, lancedb, o)} :
              /\ StageEnds("cleanup", o, c.result)
              /\ archives' = c.files
              /\ indexStore' = c.rows

Archive ==
    /\ StageRunning("data_archiver")
    /\ \E o \in StageOutcomes("data_archiver") :
          \E a \in {archive_state(runState, archives, o)} :
              /\ StageEnds("data_archiver", o, a.result)
              /\ archives' = a.files
              /\ UNCHANGED indexStore

VectorStore ==
    /\ StageRunning("vector_store")
    /\ \E o \in StageOutcomes("vector_store") :
          \E v \in {store_in_vector_db(runState, indexStore, lancedb, o)} :
              /\ StageEnds("vector_store", o, v.result)
              /\ indexStore' = v.rows
              /\ UNCHANGED archives

RagRetrieve ==
    /\ StageRunning("rag_retriever")
    /\ \E o \in StageOutcomes("rag_retriever") :
          \E r \in {retrieve_from_vector_db(runState, indexStore, lancedb, o)} :
              /\ StageEnds("rag_retriever", o, r)
              /\ UNCHANGED <<indexStore, archives>>

Synthesize ==
    /\ StageRunning("synthesizer")
    /\ \E o \in StageOutcomes("synthesizer") :
          \E r \in {generate_final_report(runState, o)} :
              /\ StageEnds("synthesizer", o, r)
              /\ UNCHANGED <<indexStore, archives>>

Next ==
    \/ Orchestrate
    \/ \E node \in AgentNodes : Collector(node)
    \/ Join
    \/ Cleanup
    \/ Archive
    \/ VectorStore
    \/ RagRetrieve
    \/ Synthesize

Spec == Init /\ [][Next]_vars

\* every external call eventually returns or fails
FairSpec == Spec /\ WF_vars(Next)

TypeOK ==
    /\ phase \in {"Pending", "FannedOut", "Finalizing", "Done", "Failed"}
    /\ \A n \in Nodes : status[n] \in {"idle", "running", "returned", "raised"}

(***************************************************************************)
(* SpecChunk: _chunk_text applied to one text.                             *)
(***************************************************************************)
\* the texts: n characters, plain ASCII letters or with a character of two,
\* three or four UTF-8 bytes at every third, fifth or seventh position
\* (windows end between characters), or of two bytes at every second
\* position (a window ends inside a character), or of four bytes at every
\* position (texts of several windows)
Patterns == {"ascii", "latin", "euro", "emoji", "accent", "wide"}

PatternChar(pattern, i) ==
    CASE pattern = "latin" /\ i % 3 = 0 -> 233
      [] pattern = "euro"  /\ i % 5 = 0 -> 8364
      [] pattern = "emoji" /\ i % 7 = 0 -> 128512
      [] pattern = "accent" /\ i % 2 = 0 -> 233
      [] pattern = "wide" -> 128512 + (i % 8)
      [] OTHER -> 97 + (i % 26)

TextOf(n, pattern) == [i \in 1..n |-> PatternChar(pattern, i)]

\* the run variables do not take part in SpecChunk
RunIdle ==
    /\ request = [topic |-> <<>>, mode |-> "simple",
                  selected_agents |-> [kind |-> "absent", list |-> <<>>]]
    /\ lancedb = FALSE
    /\ runState = <<>>
    /\ status = [n \in Nodes |-> "idle"]
    /\ started = [n \in Nodes |-> 0]
    /\ branches = <<>>
    /\ writes = <<>>
    /\ outcome = [n \in Nodes |-> "none"]
    /\ phase = "Idle"
    /\ failedAt = "none"
    /\ writeCount = [k \in NodeKeys |-> 0]
    /\ indexStore = <<>>
    /\ archives = {}

InitChunk ==
    /\ RunIdle
    /\ \E n \in 0..MaxTextLen, pattern \in Patterns : ctext = TextOf(n, pattern)
    /\ cchunks = <<>>
    /\ cpc = "ready"
    /\ CallIdle

ChunkText ==
    /\ cpc = "ready"
    /\ cchunks' = _chunk_text(ctext)
    /\ cpc' = "chunked"
    /\ UNCHANGED <<ctext, runVars, callVars>>

NextChunk == ChunkText

SpecChunk == InitChunk /\ [][NextChunk]_vars

(***************************************************************************)
(* SpecId: _record_id applied to two chunks.                               *)
(***************************************************************************)
\* texts with and without the separator and digits in them
IdTexts ==
    { <<>>, <<120>>, <<48>>, <<58, 58, 120>>, <<48, 58, 58, 120>>,
      <<49, 58, 58, 48, 58, 58, 120>> }

\* chunk dicts as _collect_text_chunks builds them: a collector key or the
\* reserved key, a source name of the program, two indices and a text
IdChunks ==
    [agent : {"web_results", "news_results", "final_report"},
     source : {"duckduckgo", "duckduckgo_news", "final_report"},
     original_index : {0, 1, 10}, chunk_index : {0, 1}, text : IdTexts]

InitId ==
    /\ RunIdle
    /\ ChunkIdle
    /\ fin \in [op : {"_record_id"}, a : IdChunks, b : IdChunks]
    /\ fout = <<>>
    /\ fpc = "call"

RecordIds ==
    /\ fpc = "call"
    /\ fin.op = "_record_id"
    /\ fout' = [a |-> _record_id(fin.a), b |-> _record_id(fin.b)]
    /\ fpc' = "done"
    /\ UNCHANGED <<fin, runVars, chunkVars>>

NextId == RecordIds

SpecId == InitId /\ [][NextId]_vars

(***************************************************************************)
(* SpecStore: store_in_vector_db applied to one Run State and one store.   *)
(***************************************************************************)
\* a record whose serialized text is longer than the window and has "$" as
\* the first character of its second chunk
LongItem ==
    DictItem([i \in 1..349 |->
                 IF i = _CHUNK_SIZE_TOKENS - _CHUNK_OVERLAP_TOKENS
                 THEN 36 ELSE 97 + (i % 26)])

\* the buckets a Run State may hold under three of the collector keys:
\* absent (<<>>), or a bucket with sources
StoreBuckets(key) ==
    CASE key = "web_results" ->
           { <<>>,
             "web_results" :>
                 Bucket(<<Source("duckduckgo", ServiceItems(100), [limit |-> 2])>>,
                        0, <<>>) }
      [] key = "academic_results" ->
           \* no sources at all; two sources of one name that hold the same
           \* record, and a string of blanks, under different metadata
           { <<>>,
             "academic_results" :> Bucket(<<>>, 0, [error |-> "arxiv raised"]),
             "academic_results" :>
                 Bucket(<<Source("arxiv", <<DictItem(<<97, 49>>), StrItem(<<32>>)>>,
                                 [limit |-> 1]),
                          Source("arxiv", <<DictItem(<<97, 49>>)>>,
                                 [limit |-> 2])>>,
                        0, <<>>) }
      [] key = "financial_data" ->
           \* strings, one of them a price; a long record
           { <<>>,
             "financial_data" :>
                 Bucket(<<Source("financial_news",
                                 <<StrItem(<<36, 53>>), StrItem(<<120>>)>>,
                                 <<>>)>>, 0, <<>>),
             "financial_data" :>
                 Bucket(<<Source("financial_news", <<LongItem>>, <<>>)>>,
                        0, <<>>) }

StoreStates ==
    { [topic |-> <<113>>, mode |-> "simple"] @@ w @@ a @@ f :
        w \in StoreBuckets("web_results"),
        a \in StoreBuckets("academic_results"),
        f \in StoreBuckets("financial_data") }

InitStore ==
    /\ RunIdle
    /\ ChunkIdle
    /\ fin \in [op : {"store_in_vector_db"}, state : StoreStates,
                 rows : {<<>>, <<StaleRow>>}, lancedb : BOOLEAN,
                 outcome : StageOutcomes("vector_store")]
    /\ fout = <<>>
    /\ fpc = "call"

StoreInVectorDb ==
    /\ fpc = "call"
    /\ fin.op = "store_in_vector_db"
    /\ fout' = store_in_vector_db(fin.state, fin.rows, fin.lancedb, fin.outcome)
    /\ fpc' = "done"
    /\ UNCHANGED <<fin, runVars, chunkVars>>

NextStore == StoreInVectorDb

SpecStore == InitStore /\ [][NextStore]_vars

(***************************************************************************)
(* SpecRetrieve: retrieve_from_vector_db applied to one topic and store.   *)
(***************************************************************************)
\* n rows as store_in_vector_db writes them, from chunks of two collectors;
\* the metadata of every third one has entries named source and agent
ManyRows(n) ==
    IndexRecords(
        [i \in 1..n |->
            [agent |-> IF i % 2 = 0 THEN "web_results" ELSE "news_results",
             source |-> IF i % 2 = 0 THEN "tavily" ELSE "duckduckgo_news",
             metadata |-> SerializeMetadata(
                              IF i % 3 = 0
                              THEN [source |-> "", agent |-> "", limit |-> 2]
                              ELSE [limit |-> 2]),
             original_index |-> i - 1, chunk_index |-> 0,
             text |-> <<123, 97 + i, 125>>, token_count |-> 3]]) \o <<>>

RetrieveStates ==
    { [mode |-> "simple"] } \cup
    { [mode |-> "simple", topic |-> t] : t \in {<<>>, <<113>>, <<120, 121>>} }

InitRetrieve ==
    /\ RunIdle
    /\ ChunkIdle
    /\ fin \in [op : {"retrieve_from_vector_db"}, state : RetrieveStates,
                 rows : {<<>>, <<StaleRow>>, ManyRows(MaxRows)},
                 lancedb : BOOLEAN, outcome : StageOutcomes("rag_retriever")]
    /\ fout = <<>>
    /\ fpc = "call"

RetrieveFromVectorDb ==
    /\ fpc = "call"
    /\ fin.op = "retrieve_from_vector_db"
    /\ fout' = [result |-> retrieve_from_vector_db(fin.state, fin.rows,
                                                   fin.lancedb, fin.outcome),
                calls |-> RetrieveCalls(fin.state, fin.lancedb, fin.outcome)]
    /\ fpc' = "done"
    /\ UNCHANGED <<fin, runVars, chunkVars>>

NextRetrieve == RetrieveFromVectorDb

SpecRetrieve == InitRetrieve /\ [][NextRetrieve]_vars

(***************************************************************************)
(* SpecCodec: _decode_tokens(_encode_tokens(text)) with the "char"         *)
(* encoder, for texts over the code points at the edges of the UTF-8       *)
(* lengths and a lone surrogate, which a Python str can hold (json.loads   *)
(* of an unpaired \ud83d escape).                                          *)
(***************************************************************************)
CodecChars == {97, 127, 128, 2047, 2048, 55357, 65535, 65536, 1114111}

CodecTexts == UNION {[1..n -> CodecChars] : n \in 0..MaxCodecLen}

IsSurrogate(cp) == cp >= 55296 /\ cp <= 57343

\* text.encode("utf-8") with the strict error handler: a surrogate code
\* point cannot be encoded, UnicodeEncodeError
EncodeUtf8(text) ==
    IF \E i \in DOMAIN text : IsSurrogate(text[i])
    THEN Raised("UnicodeEncodeError")
    ELSE Returned(_encode_tokens(text))

\* _decode_tokens(_encode_tokens(text))
RoundTrip(text) ==
    The({IF enc.kind = "raised" THEN enc
         ELSE Returned(_decode_tokens(enc.update)) : enc \in {EncodeUtf8(text)}})

InitCodec ==
    /\ RunIdle
    /\ ChunkIdle
    /\ fin \in [op : {"round_trip"}, text : CodecTexts]
    /\ fout = <<>>
    /\ fpc = "call"

EncodeDecode ==
    /\ fpc = "call"
    /\ fin.op = "round_trip"
    /\ fout' = RoundTrip(fin.text)
    /\ fpc' = "done"
    /\ UNCHANGED <<fin, runVars, chunkVars>>

NextCodec == EncodeDecode

SpecCodec == InitCodec /\ [][NextCodec]_vars

(***************************************************************************)
(* SpecLoop: _chunk_text one loop iteration at a time, with the window and *)
(* the overlap as parameters of the call.  fout holds the locals of the    *)
(* function: start and chunks.                                             *)
(***************************************************************************)
\* the shipped configuration and the small ones with 0 <= overlap < window
LoopConfigs ==
    { [window |-> _CHUNK_SIZE_TOKENS, overlap |-> _CHUNK_OVERLAP_TOKENS,
       text |-> [i \in 1..(100 * k) |-> 97]] : k \in 0..MaxLoopTokens }
    \cup
    { [window |-> w, overlap |-> o, text |-> [i \in 1..n |-> 97]] :
        w \in 1..MaxWindow, o \in 0..(MaxWindow - 1), n \in 0..MaxLoopTokens }

\* start = max(0, end - overlap) and no progress: start stays where it was
SameStart(start, end, overlap) == start

\* start = max(0, end - _CHUNK_OVERLAP_TOKENS)
NextStart(start, end, overlap) == Max(0, end - overlap)

InitLoop ==
    /\ RunIdle
    /\ ChunkIdle
    /\ \E c \in LoopConfigs :
          /\ c.overlap < c.window
          /\ fin = [op |-> "_chunk_text", text |-> c.text,
                    tokens |-> _encode_tokens(c.text),
                    window |-> c.window, overlap |-> c.overlap]
    /\ fout = <<>>
    /\ fpc = "call"

\* lines 105-109: the early return, or the locals before the loop
ChunkEntry ==
    /\ fpc = "call"
    /\ fin.op = "_chunk_text"
    /\ IF Len(fin.tokens) <= fin.window
       THEN fout' = [chunks |-> <<fin.text>>, start |-> 0] /\ fpc' = "done"
       ELSE fout' = [chunks |-> <<>>, start |-> 0] /\ fpc' = "loop"
    /\ UNCHANGED <<fin, runVars, chunkVars>>

\* lines 110-117: one test of the while condition and one pass of the body
ChunkIteration ==
    /\ fpc = "loop"
    /\ IF ~(fout.start < Len(fin.tokens))
       THEN fpc' = "done" /\ UNCHANGED fout
       ELSE \E end \in {fout.start + fin.window} :
              \E chunk \in {_decode_tokens(Slice(fin.tokens, fout.start, end))} :
                 IF end >= Len(fin.tokens)
                 THEN /\ fout' = [fout EXCEPT !.chunks = Append(@, chunk)]
                      /\ fpc' = "done"
                 ELSE /\ fout' = [chunks |-> Append(fout.chunks, chunk),
                                  start |-> NextStart(fout.start, end, fin.overlap)]
                      /\ fpc' = "loop"
    /\ UNCHANGED <<fin, runVars, chunkVars>>

NextLoop == ChunkEntry \/ ChunkIteration

SpecLoop == InitLoop /\ [][NextLoop]_vars

\* the interpreter keeps executing the function until it returns
FairSpecLoop == SpecLoop /\ WF_vars(NextLoop)

(***************************************************************************)
(* workflows/langgraph_workflow.py: ResearchWorkflow.execute.  The agents  *)
(* are coroutines that asyncio.gather runs together; each completes in a   *)
(* step of its own, in any order.  fout holds the locals of execute.       *)
(***************************************************************************)
WorkflowAgents == {"perplexity", "youtube", "api"}

\* _initialize_agents: the agent object (TRUE) or None (FALSE) per name;
\* env says whose constructor succeeds.  agents/youtube_agent.py defines no
\* YouTubeAgent, the import fails and the entry is None.
_initialize_agents(env) ==
    [a \in WorkflowAgents |-> IF a = "youtube" THEN FALSE ELSE env[a]]

\* what a started agent's research() can do: return a success result,
\* return its error result (PerplexityAgent._error_result), or raise
AgentOutcomes(name) ==
    IF name = "perplexity" THEN {"success", "error", "raised"}
    ELSE {"success", "raised"}

\* the dict research() returns; cost in integer units
AgentResult(name, how) ==
    CASE how = "error" ->
           [agent_name |-> name, status |-> "error", error |-> "request failed",
            sources |-> <<>>, source_count |-> 0, tokens |-> 0, cost |-> 0]
      [] name = "perplexity" ->
           [agent_name |-> name, status |-> "success",
            sources |-> <<"citation 1", "citation 2">>, source_count |-> 2,
            tokens |-> 5, cost |-> 2]
      [] OTHER ->
           [agent_name |-> name, status |-> "success",
            sources |-> <<"arxiv 1">>, source_count |-> 1,
            tokens |-> 3, cost |-> 0]

\* the name put into a failed record, taken from the selection
FailedNameBySelection(selected_agents, agent_names_used, i) == selected_agents[i]

\* the name put into a failed record: agent_names_used[i]
FailedName(selected_agents, agent_names_used, i) == agent_names_used[i]

\* the loop "for i, result in enumerate(agent_results)"
ProcessResults(selected_agents, agent_names_used, tasks) ==
    [i \in DOMAIN tasks |->
        IF tasks[i].state = "raised"
        THEN [agent_name |-> FailedName(selected_agents, agent_names_used, i),
              status |-> "failed", error |-> tasks[i].error]
        ELSE tasks[i].value]

\* the loop of _consolidate_results over agent_results[i..]
RECURSIVE Aggregate(_, _, _)
Aggregate(agent_results, i, acc) ==
    IF i > Len(agent_results) THEN acc
    ELSE Aggregate(agent_results, i + 1,
            IF agent_results[i].status = "success"
            THEN [all_sources |-> acc.all_sources \o agent_results[i].sources,
                  total_tokens |-> acc.total_tokens + agent_results[i].tokens,
                  total_cost |-> acc.total_cost + agent_results[i].cost,
                  successful_agents |->
                      Append(acc.successful_agents, agent_results[i].agent_name)]
            ELSE acc)

Min(a, b) == IF a <= b THEN a ELSE b

\* sum(r.get('source_count', 0) for r in agent_results[i..])
RECURSIVE SourceCounts(_, _)
SourceCounts(agent_results, i) ==
    IF i > Len(agent_results) THEN 0
    ELSE (IF "source_count" \in DOMAIN agent_results[i]
          THEN agent_results[i].source_count ELSE 0)
         + SourceCounts(agent_results, i + 1)

\* _calculate_confidence_score(agent_results), successful of them successful
_calculate_confidence_score(agent_results, successful) ==
    Min(40 + Min(successful * 15, 30)
           + Min((SourceCounts(agent_results, 1) * 30) \div 20, 30), 100)

\* _consolidate_results: the aggregated part of the consolidated dict
_consolidate_results(agent_results) ==
    The({[agent_results |-> agent_results,
          successful_agents |-> acc.successful_agents,
          total_sources |-> Len(acc.all_sources),
          total_tokens |-> acc.total_tokens,
          total_cost |-> acc.total_cost,
          confidence_score |->
              _calculate_confidence_score(agent_results,
                                          Len(acc.successful_agents)),
          synthesis_quality |->
              IF Len(acc.successful_agents) > 1 THEN "high" ELSE "medium"] :
         acc \in {Aggregate(agent_results, 1,
                     [all_sources |-> <<>>, total_tokens |-> 0,
                      total_cost |-> 0, successful_agents |-> <<>>])}})

InitWorkflow ==
    /\ RunIdle
    /\ ChunkIdle
    /\ fin \in [op : {"execute"},
                 selected_agents :
                     SeqsUpTo(WorkflowAgents \cup {"unknown"}, MaxWorkflowSel),
                 env : [WorkflowAgents -> BOOLEAN]]
    /\ fout = <<>>
    /\ fpc = "call"

\* execute up to the call of asyncio.gather: the coroutines are created
ExecuteStart ==
    /\ fpc = "call"
    /\ fin.op = "execute"
    /\ \E agents \in {_initialize_agents(fin.env)} :
          LET Available(name) == name \in DOMAIN agents /\ agents[name]
              used == SelectSeq(fin.selected_agents, Available)
          IN  fout' = [agent_names_used |-> used,
                       tasks |-> [i \in DOMAIN used |-> [state |-> "pending"]],
                       consolidated |-> <<>>]
    /\ fpc' = "gather"
    /\ UNCHANGED <<fin, runVars, chunkVars>>

\* the coroutine of task i returns or raises
AgentCompletes(i) ==
    /\ fpc = "gather"
    /\ i \in DOMAIN fout.tasks
    /\ fout.tasks[i].state = "pending"
    /\ \E o \in AgentOutcomes(fout.agent_names_used[i]) :
          fout' = [fout EXCEPT !.tasks[i] =
                      IF o = "raised"
                      THEN [state |-> "raised", error |-> "agent raised"]
                      ELSE [state |-> "returned",
                            value |-> AgentResult(fout.agent_names_used[i], o)]]
    /\ UNCHANGED <<fin, fpc, runVars, chunkVars>>

\* gather(..., return_exceptions=True) returns once every task is over;
\* the results are processed and consolidated
GatherReturns ==
    /\ fpc = "gather"
    /\ \A i \in DOMAIN fout.tasks : fout.tasks[i].state # "pending"
    /\ \E processed \in {ProcessResults(fin.selected_agents,
                                          fout.agent_names_used, fout.tasks)} :
          fout' = [fout EXCEPT !.consolidated = _consolidate_results(processed)]
    /\ fpc' = "done"
    /\ UNCHANGED <<fin, runVars, chunkVars>>

NextWorkflow ==
    \/ ExecuteStart
    \/ \E i \in 1..MaxWorkflowSel : AgentCompletes(i)
    \/ GatherReturns

SpecWorkflow == InitWorkflow /\ [][NextWorkflow]_vars

(***************************************************************************)
(* Properties.                                                             *)
(***************************************************************************)
\* the key under which a collector node returns its bucket
NodeKey(node) ==
    CHOOSE k \in NodeKeys :
        k \in DOMAIN RunCollector(node, <<113>>, "simple", "ok").update

\* the key under which a finalize node returns its result
StageKey(node) ==
    CASE node = "cleanup"       -> "cleanup_result"
      [] node = "data_archiver" -> "archive_path"
      [] node = "vector_store"  -> "vector_store_result"
      [] node = "rag_retriever" -> "rag_result"
      [] node = "synthesizer"   -> "synthesizer_result"

\* a bucket carries an error field: details.error, or error(s) in the
\* metadata of one of its sources
HasError(bucket) ==
    \/ "error" \in DOMAIN bucket.details
    \/ \E i \in DOMAIN bucket.sources :
          /\ "metadata" \in DOMAIN bucket.sources[i]
          /\ {"error", "errors"} \cap DOMAIN bucket.sources[i].metadata # {}

Restrict(f, S) == [k \in S \cap DOMAIN f |-> f[k]]

\* C1: once the orchestrator has run, the branch list is exactly the
\* branches whose agent occurs in selected_agents when there is one, all
\* seven otherwise; it is never empty and names no branch twice.
C1_FanOutSelection ==
    phase # "Pending" =>
        LET selected == Range(SelectedOrEmpty(request.selected_agents))
            known == {name \in BranchNames : BranchNode(name) \in selected}
        IN  /\ Range(branches) = IF known # {} THEN known ELSE BranchNames
            /\ branches # <<>>
            /\ Len(branches) = Cardinality(Range(branches))

\* a request that names only an unknown agent has fanned out to all seven
C1_Witness ==
    /\ phase = "FannedOut"
    /\ request.selected_agents.kind = "list"
    /\ request.selected_agents.list = <<"unknown_agent">>
    /\ Len(branches) = 7

\* C2: no finalize stage has started while a selected branch has not
\* returned its bucket.
C2_FullBarrier ==
    (\E n \in FinalizeNodes : status[n] # "idle") =>
        /\ SelectedNodes # {}
        /\ \A n \in SelectedNodes :
              status[n] = "returned" /\ NodeKey(n) \in DOMAIN runState

\* cleanup runs after all seven branches have returned
C2_Witness ==
    /\ status["cleanup"] = "running"
    /\ Cardinality(SelectedNodes) = 7
    /\ \A n \in SelectedNodes : status[n] = "returned"

\* C3 (as claimed): the finalize stages run one at a time in chain order,
\* none more than once, and a run that has ended has executed each of the
\* five exactly once.
C3_ChainExactlyOnce ==
    /\ Cardinality({n \in FinalizeNodes : status[n] = "running"}) <= 1
    /\ \A i \in DOMAIN FinalizeChain :
          status[FinalizeChain[i]] # "idle" =>
              \A j \in 1..(i - 1) : status[FinalizeChain[j]] = "returned"
    /\ \A n \in FinalizeNodes : started[n] <= 1
    /\ phase \in {"Done", "Failed"} =>
          \A n \in FinalizeNodes : started[n] = 1 /\ status[n] = "returned"

\* C4 (as claimed): when exactly one selected branch's service fails, the
\* run does not fail in a branch, and once joined the run state holds every
\* selected key, with an error in the failing branch's bucket only.
C4_BranchIsolation ==
    LET failing == {n \in SelectedNodes : IsFault(outcome[n])}
    IN  Cardinality(failing) = 1 =>
            /\ failedAt \notin AgentNodes
            /\ phase \in {"Finalizing", "Done"} =>
                  \A n \in SelectedNodes :
                      /\ NodeKey(n) \in DOMAIN runState
                      /\ HasError(runState[NodeKey(n)]) <=> n \in failing

\* C5 (as claimed): a collector that has finished has returned a bucket
\* under its own key, with an error field when its service failed.
C5_CollectorNeverRaises ==
    \A n \in AgentNodes :
        outcome[n] # "none" =>
            /\ status[n] = "returned"
            /\ LET bucket == IF n \in DOMAIN writes THEN writes[n][NodeKey(n)]
                             ELSE runState[NodeKey(n)]
               IN  IsFault(outcome[n]) => HasError(bucket)

\* C6 (as claimed): a finalize stage whose resource failed has returned its
\* own result with an error field and the chain went on.
C6_StageDegradesGracefully ==
    \A n \in FinalizeNodes :
        outcome[n] \notin {"none", "ok"} =>
            /\ status[n] = "returned"
            /\ StageKey(n) \in DOMAIN runState
            /\ HasError(runState[StageKey(n)])
            /\ phase # "Failed"

\* C7 (as claimed): every run eventually reaches Done.
C7_RunCompletes == <>(phase = "Done")

\* C8: no key is written twice, the updates waiting at the barrier have
\* pairwise disjoint keys and none of them is already populated.
C8_DisjointWrites ==
    /\ \A k \in NodeKeys : writeCount[k] <= 1
    /\ \A n \in DOMAIN writes :
          /\ DOMAIN writes[n] \cap DOMAIN runState = {}
          /\ \A m \in DOMAIN writes \ {n} :
                DOMAIN writes[n] \cap DOMAIN writes[m] = {}

\* a run in which all fourteen keys were written, each once
C8_Witness ==
    /\ phase = "Done"
    /\ \A k \in NodeKeys : writeCount[k] = 1

\* the run state that the branch results give when they are merged in the
\* reverse of the order in which the graph applies them
RECURSIVE MergeReversed(_, _)
MergeReversed(state, i) ==
    IF i = 0 THEN state
    ELSE LET node == PARALLEL_BRANCHES[i][2]
             r == RunCollector(node, request.topic, request.mode, outcome[node])
         IN  MergeReversed(IF node \in SelectedNodes
                           THEN ApplyUpdate(state, r.update) ELSE state, i - 1)

CollectorKeys == {agent_keys[i] : i \in DOMAIN agent_keys}

\* C9: after the join the collector part of the run state is the merge of
\* the branch results whatever the order of merging, and the rows written
\* by the indexing stage are those computed from that merge.
C9_OrderIndependent ==
    phase \in {"Finalizing", "Done"} =>
        LET merged == MergeReversed(InitialState(request), Len(PARALLEL_BRANCHES))
        IN  /\ Restrict(runState, CollectorKeys) = Restrict(merged, CollectorKeys)
            /\ (status["vector_store"] = "returned"
                  /\ "chunk_count" \in DOMAIN runState["vector_store_result"].details)
               => indexStore = store_in_vector_db(merged, <<>>, TRUE, "ok").rows

\* seven branches completed in some order and their chunks were indexed
C9_Witness ==
    /\ phase = "Done"
    /\ Cardinality(SelectedNodes) = 7
    /\ Len(indexStore) > 12

\* C10: a text of at most _CHUNK_SIZE_TOKENS tokens is returned as the only
\* chunk, unchanged.
C10_ShortTextSingleChunk ==
    (cpc = "chunked" /\ Len(_encode_tokens(ctext)) <= _CHUNK_SIZE_TOKENS)
        => cchunks = <<ctext>>

\* a text with multi-byte characters that fills the window exactly
C10_Witness ==
    /\ cpc = "chunked"
    /\ Len(_encode_tokens(ctext)) = _CHUNK_SIZE_TOKENS
    /\ \E i \in DOMAIN ctext : ctext[i] > 127
    /\ cchunks = <<ctext>>

\* the last n elements of s
LastOf(s, n) == SubSeq(s, Len(s) - n + 1, Len(s))

\* C11 (as claimed): of a text longer than the window, every chunk but the
\* last has exactly _CHUNK_SIZE_TOKENS tokens and the last
\* _CHUNK_OVERLAP_TOKENS tokens of each chunk are the first
\* _CHUNK_OVERLAP_TOKENS tokens of the next one.
C11_ChunkOverlap ==
    (cpc = "chunked" /\ Len(_encode_tokens(ctext)) > _CHUNK_SIZE_TOKENS) =>
        \A k \in 1..(Len(cchunks) - 1) :
            \E this \in {_encode_tokens(cchunks[k])},
               next \in {_encode_tokens(cchunks[k + 1])} :
                /\ Len(this) = _CHUNK_SIZE_TOKENS
                /\ Len(next) >= _CHUNK_OVERLAP_TOKENS
                /\ LastOf(this, _CHUNK_OVERLAP_TOKENS)
                     = SubSeq(next, 1, _CHUNK_OVERLAP_TOKENS)

\* C12: two chunks get the same id exactly when they agree in all five
\* fields, and a chunk under the reserved key final_report never gets the
\* id of a chunk under a collector key.
C12_RecordIdInjective ==
    (fpc = "done" /\ fin.op = "_record_id") =>
        /\ (fout.a = fout.b) <=> (fin.a = fin.b)
        /\ (fin.a.agent = "final_report" /\ fin.b.agent \in CollectorKeys)
              => fout.a # fout.b

\* two chunks that differ only in their texts, one of which holds the
\* separator, got different ids
C12_Witness ==
    /\ fpc = "done" /\ fin.op = "_record_id"
    /\ fin.a.text = <<120>> /\ fin.b.text = <<48, 58, 58, 120>>
    /\ [fin.a EXCEPT !.text = <<>>] = [fin.b EXCEPT !.text = <<>>]
    /\ fout.a # fout.b

\* the call of store_in_vector_db has returned and reports a written batch
BatchWritten ==
    /\ fpc = "done" /\ fin.op = "store_in_vector_db"
    /\ fout.result.kind = "returned"
    /\ "chunk_count" \in DOMAIN fout.result.update["vector_store_result"].details

\* the records of rs that no earlier record of rs shares its id with
FirstOfEachId(rs) ==
    LET First(i) == \A j \in 1..(i - 1) : rs[j].id # rs[i].id
    IN  [k \in DOMAIN SelectSeq([i \in DOMAIN rs |-> i], First) |->
            rs[SelectSeq([i \in DOMAIN rs |-> i], First)[k]]]

\* C13 (as claimed): the batch written is the first record of each distinct
\* id among the assembled records, in input order, and chunk_count is the
\* number of distinct ids.
C13_FirstWinsDedup ==
    BatchWritten =>
        \E rs \in {IndexRecords(_collect_text_chunks(fin.state)) \o <<>>} :
            /\ fout.rows = FirstOfEachId(rs)
            /\ fout.result.update["vector_store_result"].details.chunk_count
                 = Cardinality({rs[i].id : i \in DOMAIN rs})

\* C14 (as claimed): after a pass that returns, the store holds the
\* deduplicated batch of the pass and nothing else.
C14_StoreReplaced ==
    (status["vector_store"] = "returned" /\ status["rag_retriever"] = "running")
        => indexStore
             = FirstOfEachId(IndexRecords(_collect_text_chunks(runState)) \o <<>>)

\* C15 (as claimed): without lancedb, with a table that cannot be opened or
\* with no chunks, the call returns an empty bucket with an error or a note
\* and leaves the store as it was.
C15_DegenerateCases ==
    (/\ fpc = "done" /\ fin.op = "store_in_vector_db"
     /\ \/ ~fin.lancedb
        \/ fin.outcome = "open_failed"
        \/ _collect_text_chunks(fin.state) = <<>>)
    => /\ fout.result.kind = "returned"
       /\ fout.rows = fin.rows
       /\ \E b \in {fout.result.update["vector_store_result"]} :
             /\ b.sources = <<>> /\ b.tokens = 0
             /\ {"error", "note"} \cap DOMAIN b.details # {}

\* the call of retrieve_from_vector_db is over
Retrieved == fpc = "done" /\ fin.op = "retrieve_from_vector_db"

\* the hits of a rag_result bucket: the items of its sources
HitsOf(bucket) ==
    Flatten([i \in DOMAIN bucket.sources |-> bucket.sources[i].items])

\* C16 (as claimed): with an empty or absent topic the call returns a bucket
\* without sources and with an error, and neither embeds nor searches.
C16_EmptyTopic ==
    (Retrieved /\ ("topic" \notin DOMAIN fin.state \/ fin.state["topic"] = <<>>))
    => /\ fout.result.kind = "returned"
       /\ fout.result.update["rag_result"].sources = <<>>
       /\ "error" \in DOMAIN fout.result.update["rag_result"].details
       /\ \A i \in DOMAIN fout.calls : fout.calls[i] \notin {"encode", "search"}

\* C17: a returned result has at most _RETRIEVAL_TOP_K hits and the metadata
\* of each hit names the source and the collector key of its row.
C17_BoundedHitsWithProvenance ==
    (Retrieved /\ fout.result.kind = "returned") =>
        \E hits \in {HitsOf(fout.result.update["rag_result"])} :
            /\ Len(hits) <= _RETRIEVAL_TOP_K
            /\ \A i \in DOMAIN hits :
                  \E j \in DOMAIN fin.rows :
                      /\ fin.rows[j].text = hits[i].text
                      /\ hits[i].metadata.source = fin.rows[j].source
                      /\ hits[i].metadata.agent = fin.rows[j].agent
                      /\ hits[i].metadata.source # ""
                      /\ hits[i].metadata.agent # ""

\* a search of a store of more than _RETRIEVAL_TOP_K rows returned exactly
\* _RETRIEVAL_TOP_K hits, one of them with source and agent in its blob
C17_Witness ==
    /\ Retrieved /\ fout.result.kind = "returned"
    /\ Len(fin.rows) > _RETRIEVAL_TOP_K
    /\ Len(HitsOf(fout.result.update["rag_result"])) = _RETRIEVAL_TOP_K
    /\ \E j \in DOMAIN fin.rows :
          /\ "source" \in DOMAIN DeserializeMetadata(fin.rows[j].metadata)
          /\ \E i \in DOMAIN HitsOf(fout.result.update["rag_result"]) :
                HitsOf(fout.result.update["rag_result"])[i].text = fin.rows[j].text

\* C18 (as claimed): every returned result carries the list of hits, the hit
\* count and the requested top_K, also when the list is empty.
C18_HitsCountTopK ==
    (Retrieved /\ fout.result.kind = "returned") =>
        \E b \in {fout.result.update["rag_result"]} :
            /\ Len(HitsOf(b)) <= _RETRIEVAL_TOP_K
            /\ \E i \in DOMAIN b.sources :
                  /\ {"result_count", "requested_top_k"}
                        \subseteq DOMAIN b.sources[i].metadata
                  /\ b.sources[i].metadata.result_count = Len(HitsOf(b))
                  /\ b.sources[i].metadata.requested_top_k = _RETRIEVAL_TOP_K

\* the finalize stages that open the research_chunks table or its directory
StoreStages == {"cleanup", "vector_store", "rag_retriever"}

\* while a stage works on the store no branch runs, no other stage works on
\* the store, and retrieval runs only after indexing has returned
StoreAccessSerial ==
    \A n \in StoreStages :
        status[n] = "running" =>
            /\ \A c \in AgentNodes : status[c] # "running"
            /\ \A m \in StoreStages \ {n} : status[m] # "running"
            /\ n = "rag_retriever" => status["vector_store"] = "returned"

\* C19 (as claimed): every change of the store (delete, add, reset) is made
\* by the indexing stage.
C19_WritesOnlyInIndexing ==
    [][indexStore' # indexStore => status["vector_store"] = "running"]_vars

\* C19 (amended): every change of the store is made by the cleanup stage
\* (reset) or the indexing stage (delete, add), after the join and while no
\* branch runs; two stages never work on the store together, and retrieval
\* reads it only after indexing has returned.
C19_StoreWritesAfterJoin ==
    [][/\ indexStore' # indexStore =>
            /\ phase = "Finalizing"
            /\ status["cleanup"] = "running" \/ status["vector_store"] = "running"
            /\ \A c \in AgentNodes : status[c] # "running"
       /\ StoreAccessSerial']_vars

\* retrieval is about to read a store that cleanup has reset and indexing
\* has filled, in a run of two or more branches
C19_Witness ==
    /\ status["rag_retriever"] = "running"
    /\ Cardinality(SelectedNodes) >= 2
    /\ outcome["cleanup"] = "ok" /\ outcome["vector_store"] = "ok"
    /\ runState["cleanup_result"].sources[1].metadata.vector_store_cleared
    /\ indexStore # <<>>

\* branch n returned a bucket with sources from a service that answered
ReturnedItems(n) ==
    /\ n \in SelectedNodes /\ outcome[n] = "ok"
    /\ NodeKey(n) \in DOMAIN runState
    /\ runState[NodeKey(n)].sources # <<>>

\* branch n failed and returned a bucket with an error and no sources
FailedEmpty(n) ==
    /\ n \in SelectedNodes /\ IsFault(outcome[n])
    /\ NodeKey(n) \in DOMAIN runState
    /\ runState[NodeKey(n)].sources = <<>>
    /\ "error" \in DOMAIN runState[NodeKey(n)].details

\* every hit is a chunk gathered from the run state, under the same key
HitsAmong(hits, chunks) ==
    \A i \in DOMAIN hits :
        \E j \in DOMAIN chunks :
            /\ chunks[j].text = hits[i].text
            /\ chunks[j].agent = hits[i].metadata.agent

\* C20 (as claimed): once retrieval has returned, every hit is a chunk of the
\* run state of this run; and when branch A returned items and branch B
\* failed with empty sources, no chunk comes from B and every hit has the
\* key of A.
C20_HitsFromCurrentRun ==
    status["rag_retriever"] = "returned" =>
        \E chunks \in {_collect_text_chunks(runState)} :
          \E hits \in {HitsOf(runState["rag_result"])} :
            /\ HitsAmong(hits, chunks)
            /\ \A a, b \in SelectedNodes :
                  (ReturnedItems(a) /\ FailedEmpty(b) /\ SelectedNodes = {a, b}) =>
                      /\ \A j \in DOMAIN chunks :
                            chunks[j].agent \in {NodeKey(a), "final_report"}
                      /\ \A i \in DOMAIN hits :
                            hits[i].metadata.agent = NodeKey(a)

\* the files that archive_state wrote in this run
RunArchives == {f \in archives : f.name = runState["archive_path"]}

\* C21 (as claimed): when the run has completed there is exactly one archive
\* file of the run, and every key of the final run state is in it.
C21_ArchiveHoldsFinalState ==
    phase = "Done" =>
        /\ Cardinality(RunArchives) = 1
        /\ \A f \in RunArchives : DOMAIN runState \subseteq DOMAIN f.content

\* C22 (as claimed): when a run has completed with a report and the indexing
\* pass has written its batch, every chunk of the report is a row of the
\* store under the key final_report.
C22_ReportIndexed ==
    (/\ phase = "Done"
     /\ "final_report" \in DOMAIN runState
     /\ runState["vector_store_result"].sources # <<>>)
    => \E chunks \in {_chunk_text(Strip(runState["final_report"]))} :
          \A k \in DOMAIN chunks :
              \E i \in DOMAIN indexStore :
                  /\ indexStore[i].agent = "final_report"
                  /\ indexStore[i].text = chunks[k]

\* finalize stage n ends in this step
StageStep(n) == status[n] = "running" /\ status'[n] # "running"

\* C23 (as claimed): the step in which a finalize stage ends adds exactly one
\* key to the run state and changes no key that was there.
C23_StageAddsOneKey ==
    [][\A n \in FinalizeNodes :
          StageStep(n) =>
              /\ Cardinality(DOMAIN runState' \ DOMAIN runState) = 1
              /\ \A k \in DOMAIN runState :
                    k \in DOMAIN runState' /\ runState'[k] = runState[k]]_vars

\* the keys under which a node returns a str and not a dict:
\* {"archive_path": str(...)} and {"final_report": report, ...}
StringKeys == {"archive_path", "final_report"}

\* an element of sources with a name, a list of items and a metadata map
IsSource(source) == {"name", "items", "metadata"} \subseteq DOMAIN source

\* a value of the shape {sources, elapsed, tokens, cost, details}
IsBucket(value) ==
    /\ DOMAIN value = {"sources", "elapsed", "tokens", "cost", "details"}
    /\ \A i \in DOMAIN value.sources : IsSource(value.sources[i])

\* C24 (as claimed): every value that a collector or a finalize stage has
\* written into the run state is a bucket whose sources each have a name,
\* items and metadata.
C24_BucketShape ==
    \A k \in DOMAIN runState \cap (NodeKeys \ {"research_plan"}) :
        k \notin StringKeys /\ IsBucket(runState[k])

\* chunks has a chunk tagged with the key, the source name and the index
Tagged(chunks, key, name, index) ==
    \E c \in DOMAIN chunks :
        /\ chunks[c].agent = key
        /\ chunks[c].source = name
        /\ chunks[c].original_index = index

\* C25 (as claimed): after the join, every item that a collector placed in
\* its bucket and whose text is not blank has a chunk among the gathered
\* chunks, tagged with the collector key, the source name and the item index;
\* a record placed directly in sources has a chunk under the collector key.
C25_EveryItemChunked ==
    phase \in {"Finalizing", "Done"} =>
        \E chunks \in {_collect_text_chunks(runState)} :
            \A key \in CollectorKeys \cap DOMAIN runState :
                \A j \in DOMAIN runState[key].sources :
                    \E source \in {runState[key].sources[j]} :
                        IF "items" \in DOMAIN source
                        THEN \A idx \in DOMAIN source.items :
                                Strip(ItemText(source.items[idx])) # <<>>
                                    => Tagged(chunks, key, source.name, idx - 1)
                        ELSE \E c \in DOMAIN chunks : chunks[c].agent = key

\* the distance between the starts of two consecutive windows
WindowStep == _CHUNK_SIZE_TOKENS - _CHUNK_OVERLAP_TOKENS

\* the first k with k * WindowStep + _CHUNK_SIZE_TOKENS >= n, for a stream
\* of n > _CHUNK_SIZE_TOKENS tokens
LastWindow(n) == (n - _CHUNK_SIZE_TOKENS + WindowStep - 1) \div WindowStep

\* the chunks of tokens are the decoded windows 0..LastWindow, none empty
WindowSlices(chunks, tokens, n) ==
    /\ Len(chunks) = LastWindow(n) + 1
    /\ LastWindow(n) * WindowStep + _CHUNK_SIZE_TOKENS >= n
    /\ \A k \in 0..LastWindow(n) :
          /\ k < LastWindow(n) => k * WindowStep + _CHUNK_SIZE_TOKENS < n
          /\ chunks[k + 1] # <<>>
          /\ chunks[k + 1]
               = _decode_tokens(SubSeq(tokens, k * WindowStep + 1,
                     IF k < LastWindow(n)
                     THEN k * WindowStep + _CHUNK_SIZE_TOKENS ELSE n))
    /\ \A p \in 1..n :
          \E k \in 0..LastWindow(n) :
              k * WindowStep < p /\ p <= k * WindowStep + _CHUNK_SIZE_TOKENS

\* C26: of a stream of n > _CHUNK_SIZE_TOKENS tokens, _chunk_text returns the
\* decoded slices that start at the multiples of window - overlap, up to the
\* first whose window reaches the end of the stream; the last slice ends at
\* the end, no chunk is empty and every token position is in a window.
C26_WindowSlices ==
    cpc = "chunked" =>
        \E tokens \in {_encode_tokens(ctext)} :
            Len(tokens) > _CHUNK_SIZE_TOKENS
                => WindowSlices(cchunks, tokens, Len(tokens))

\* a text of multi-byte characters that takes four windows or more
C26_Witness ==
    /\ cpc = "chunked"
    /\ Len(cchunks) >= 4
    /\ \E i \in DOMAIN ctext : ctext[i] > 127

\* the number of chunks before position c with the triple of chunks[c]
EarlierOfTriple(chunks, c) ==
    Cardinality({b \in 1..(c - 1) :
                    /\ chunks[b].agent = chunks[c].agent
                    /\ chunks[b].source = chunks[c].source
                    /\ chunks[b].original_index = chunks[c].original_index})

\* chunk_index counts 0, 1, 2, ... within each (agent, source,
\* original_index) triple, in the order of the list
IndexCountsUp(chunks) ==
    \A c \in DOMAIN chunks :
        chunks[c].chunk_index = EarlierOfTriple(chunks, c)

C28_RoundTrip ==
    (fpc = "done" /\ fin.op = "round_trip") =>
        fout.kind = "returned" /\ fout.update = fin.text

Startable(name) ==
    name \in {"perplexity", "api"} /\ fin.env[name]

\* the sum of field over the successful results among rs
SumOfSuccessful(rs, field) ==
    LET sum[i \in 0..Len(rs)] ==
            IF i = 0 THEN 0
            ELSE sum[i - 1] + (IF rs[i].status = "success" THEN rs[i][field] ELSE 0)
    IN  sum[Len(rs)]

\* C30: the started agents are the selected ones that are known and
\* initialised, all started before any result is used; the workflow
\* consolidates only when all are over; agent_results has one entry per
\* started agent in selection order; a raising agent's entry is a failed
\* record with its own name, the others are what the agents returned; only
\* successful results count towards sources, tokens and cost.
C30_ExecuteGathersAll ==
    (fin # <<>> /\ fin.op = "execute" /\ fpc # "call") =>
        /\ fout.agent_names_used = SelectSeq(fin.selected_agents, Startable)
        /\ DOMAIN fout.tasks = DOMAIN fout.agent_names_used
        /\ fpc = "gather" => fout.consolidated = <<>>
        /\ fpc = "done" =>
              \E rs \in {fout.consolidated.agent_results} :
                  /\ \A i \in DOMAIN fout.tasks : fout.tasks[i].state # "pending"
                  /\ DOMAIN rs = DOMAIN fout.agent_names_used
                  /\ \A i \in DOMAIN rs :
                        /\ rs[i].agent_name = fout.agent_names_used[i]
                        /\ IF fout.tasks[i].state = "raised"
                           THEN rs[i].status = "failed"
                           ELSE rs[i] = fout.tasks[i].value
                  /\ fout.consolidated.total_tokens = SumOfSuccessful(rs, "tokens")
                  /\ fout.consolidated.total_cost = SumOfSuccessful(rs, "cost")
                  /\ fout.consolidated.total_sources
                       = SumOfSuccessful(rs, "source_count")

\* an unknown agent is skipped, then one agent raises and another succeeds
C30_Witness ==
    /\ fin # <<>> /\ fin.op = "execute" /\ fpc = "done"
    /\ Len(fin.selected_agents) = 3
    /\ fin.selected_agents[1] \notin {"perplexity", "api"}
    /\ Len(fout.agent_names_used) = 2
    /\ fout.tasks[1].state = "raised"
    /\ fout.consolidated.agent_results[2].status = "success"
    /\ fout.consolidated.total_tokens > 0

====
